---------------------------- MODULE Spec2Model ----------------------------
(***************************************************************************)
(* GoldWatch dashboard (src/App.tsx and its services): the polling loop,   *)
(* the threshold alert effect, the Telegram sender, the persisted Telegram *)
(* settings and the AI insight request, as one state machine.              *)
(*                                                                         *)
(* One action is one browser task: an event handler or a promise           *)
(* continuation together with the React render it causes and every effect  *)
(* that render re-runs.  Time is in milliseconds (Date.now()).  A timer    *)
(* fires when its due time is reached: the clock never passes a due timer. *)
(* Strings are sequences of one-character strings.                         *)
(***************************************************************************)
EXTENDS Integers, Sequences, FiniteSets, TLC

\* ------------------------------------------------------------ constants
INITIAL_THRESHOLD == 2900000
POLL_INTERVAL == 60000
DEBOUNCE_MS == 600000
HISTORY_LIMIT == 30
LOG_LIMIT == 50

\* ------------------------------------------------- bounds of the model
StartTime == 1000000
\* scenario "app": every handler, a short horizon
MaxElapsed == 60000
MaxJitter == 0
MaxEvents == 2
MaxRejects == 1
MaxLate == 1
\* scenario "polling": toggles and timers
MaxElapsedPolling == 180000
MaxJitterPolling == 1
MaxEventsPolling == 3
MaxLatePolling == 1
\* scenario "history": one long monitoring run
MaxElapsedHistory == 1980000
MaxEventsHistory == 1
MaxLateHistory == 0
\* scenario "persist": settings edits and restarts
MaxEventsPersist == 4
MaxStrLen == 1

VARIABLES
    now,              \* Date.now()
    appStatus,        \* "running", or "crashed" (the state initializer threw)
    currentPrice, threshold, priceHistory, isMonitoring,
    insight, loadingInsight, loadingPrice, logs,
    tgConfig,
    lastAlertTimeRef,
    localStorage,     \* the item 'gold_tg_config': absent, or a JSON text
    intervals,        \* the active setInterval timers: [id, due]
    effectInterval,   \* `interval` in the closure of the monitoring effect's cleanup
    fetchesInFlight,  \* pending fetchLiveGoldPrice() calls
    sends,            \* checkThreshold runs awaiting sendTelegramAlert
    insightCall,      \* "idle", "awaiting", "resolved", "rejected"
    lastCall,         \* the latest sendTelegramAlert call as it was made
    lastDone,         \* the latest sendTelegramAlert call that settled
    alertStarts,      \* start times of the calls that returned true, this session
    lastFetchStart,   \* when fetchPrice was last called, this session
    resolved,         \* how many fetchPrice calls got a price, this session
    used,             \* counters of the scenario's budgets
    limits            \* the scenario's budgets

vars == << now, appStatus, currentPrice, threshold, priceHistory, isMonitoring,
           insight, loadingInsight, loadingPrice, logs, tgConfig,
           lastAlertTimeRef, localStorage, intervals, effectInterval,
           fetchesInFlight, sends, insightCall, lastCall, lastDone,
           alertStarts, lastFetchStart, resolved, used, limits >>


\* ------------------------------------------------------------- helpers
Min(a, b) == IF a < b THEN a ELSE b
Max(a, b) == IF a > b THEN a ELSE b

RECURSIVE Flatten(_)
Flatten(ss) == IF ss = << >> THEN << >> ELSE Head(ss) \o Flatten(Tail(ss))

Chars(n) == UNION { [1..k -> {"a", "\"", "\\", "\n"}] : k \in 0..n }

\* Array.prototype.slice(start) for start < 0
SliceFrom(arr, start) ==
    LET k == Max(Len(arr) + start, 0)
    IN  SubSeq(arr, k + 1, Len(arr))

\* Array.prototype.slice(0, end) for end >= 0
SliceTo(arr, end) == SubSeq(arr, 1, Min(end, Len(arr)))


\* ------------------------------------------------ JSON (the part used)
KeyBotToken == << "b", "o", "t", "T", "o", "k", "e", "n" >>
KeyChatId == << "c", "h", "a", "t", "I", "d" >>
KeyEnabled == << "e", "n", "a", "b", "l", "e", "d" >>

EscapeNone(c) == << c >>

\* JSON.stringify's QuoteJSONString, one code unit
EscapeChar(c) ==
    CASE c = "\"" -> << "\\", "\"" >>
      [] c = "\\" -> << "\\", "\\" >>
      [] c = "\n" -> << "\\", "n" >>
      [] OTHER -> << c >>

QuoteJSONString(s) ==
    << "\"" >> \o Flatten([i \in 1..Len(s) |-> EscapeChar(s[i])]) \o << "\"" >>

Literal(b) == IF b THEN << "t", "r", "u", "e" >> ELSE << "f", "a", "l", "s", "e" >>

\* JSON.stringify of a TelegramConfig: own keys in creation order, no spaces
JSONstringify(cfg) ==
    << "{" >> \o QuoteJSONString(KeyBotToken) \o << ":" >> \o QuoteJSONString(cfg.botToken)
    \o << "," >> \o QuoteJSONString(KeyChatId) \o << ":" >> \o QuoteJSONString(cfg.chatId)
    \o << "," >> \o QuoteJSONString(KeyEnabled) \o << ":" >> \o Literal(cfg.enabled)
    \o << "}" >>

SyntaxError == [ok |-> FALSE, value |-> << >>, rest |-> << >>]

StartsWith(t, p) == Len(t) >= Len(p) /\ SubSeq(t, 1, Len(p)) = p

Unescape(c) ==
    CASE c = "\"" -> "\""
      [] c = "\\" -> "\\"
      [] c = "n" -> "\n"

\* a JSON string after its opening quote
RECURSIVE ReadString(_, _)
ReadString(t, acc) ==
    IF t = << >> THEN SyntaxError
    ELSE IF t[1] = "\"" THEN [ok |-> TRUE, value |-> acc, rest |-> Tail(t)]
    ELSE IF t[1] = "\\"
         THEN IF Len(t) < 2 \/ t[2] \notin {"\"", "\\", "n"}
              THEN SyntaxError
              ELSE ReadString(SubSeq(t, 3, Len(t)), Append(acc, Unescape(t[2])))
    ELSE IF t[1] = "\n" THEN SyntaxError   \* a raw control character
    ELSE ReadString(Tail(t), Append(acc, t[1]))

ParseString(t) == IF StartsWith(t, << "\"" >>) THEN ReadString(Tail(t), << >>) ELSE SyntaxError

ParseValue(t) ==
    IF StartsWith(t, << "\"" >>) THEN ParseString(t)
    ELSE IF StartsWith(t, Literal(TRUE))
         THEN [ok |-> TRUE, value |-> TRUE, rest |-> SubSeq(t, 5, Len(t))]
    ELSE IF StartsWith(t, Literal(FALSE))
         THEN [ok |-> TRUE, value |-> FALSE, rest |-> SubSeq(t, 6, Len(t))]
    ELSE SyntaxError

\* the members of an object, from its first key to the closing brace
RECURSIVE ParseMembers(_, _)
ParseMembers(t, acc) ==
    LET k == ParseString(t)
    IN  IF ~k.ok \/ ~StartsWith(k.rest, << ":" >>) THEN SyntaxError
        ELSE LET v == ParseValue(Tail(k.rest))
             IN  IF ~v.ok THEN SyntaxError
                 ELSE LET acc2 == Append(acc, [key |-> k.value, value |-> v.value])
                      IN  IF StartsWith(v.rest, << "," >>)
                          THEN ParseMembers(Tail(v.rest), acc2)
                          ELSE IF v.rest = << "}" >>
                               THEN [ok |-> TRUE, value |-> acc2, rest |-> << >>]
                               ELSE SyntaxError

\* JSON.parse of an object of strings and booleans
JSONparse(t) ==
    IF ~StartsWith(t, << "{" >>) THEN SyntaxError
    ELSE IF Tail(t) = << "}" >> THEN [ok |-> TRUE, value |-> << >>, rest |-> << >>]
    ELSE ParseMembers(Tail(t), << >>)

\* obj[key]: the last member of that name
\* (a missing member reads as undefined, which is falsy: `missing`)
Member(obj, key, missing) ==
    LET is == { i \in 1..Len(obj) : obj[i].key = key }
    IN  IF is = {} THEN missing
        ELSE obj[CHOOSE i \in is : \A j \in is : j <= i].value

AsConfig(obj) ==
    [botToken |-> Member(obj, KeyBotToken, << >>),
     chatId |-> Member(obj, KeyChatId, << >>),
     enabled |-> Member(obj, KeyEnabled, FALSE)]

\* ------------------------------------------------------ settings state
DefaultConfig == [botToken |-> << >>, chatId |-> << >>, enabled |-> FALSE]

NoStoredItem == [present |-> FALSE, text |-> << >>]

\* the initializer of tgConfig: saved ? JSON.parse(saved) : default
LoadConfig(saved) ==
    IF saved.present /\ saved.text # << >>
    THEN LET r == JSONparse(saved.text)
         IN  IF r.ok THEN [ok |-> TRUE, config |-> AsConfig(r.value)]
             ELSE [ok |-> FALSE, config |-> DefaultConfig]
    ELSE [ok |-> TRUE, config |-> DefaultConfig]

\* the persistence effect
SaveConfig(cfg) == [present |-> TRUE, text |-> JSONstringify(cfg)]


\* ------------------------------------------------------- Telegram sender
\* if (!config.botToken || !config.chatId || !config.enabled) return false;
Configured(config) == config.botToken # << >> /\ config.chatId # << >> /\ config.enabled

ConfiguredIgnoringSwitch(config) == config.botToken # << >> /\ config.chatId # << >>

\* whether sendTelegramAlert reaches its fetch()
IssuesRequest(config) == Configured(config)

\* how the promise of sendTelegramAlert settles once its fetch() settled:
\* response.ok, or false from the catch block
Settle(outcome) ==
    CASE outcome = "ok" -> "true"
      [] outcome = "notok" -> "false"
      [] outcome = "throw" -> "false"

Outcomes == {"ok", "notok", "throw"}

NoCall == [made |-> FALSE, at |-> 0, config |-> DefaultConfig, price |-> 0,
           threshold |-> 0, monitoring |-> FALSE, requested |-> FALSE]

NoDone == [made |-> FALSE, call |-> NoCall, outcome |-> "none", result |-> "none"]

\* --------------------------------------------------------- alert effect
LogEntry(call, success) ==
    [id |-> now, threshold |-> call.threshold, price |-> call.price,
     status |-> IF success THEN "success" ELSE "failed"]

\* setLogs(prev => [entry, ...prev].slice(0, 50))
PushLog(prev, entry) == SliceTo(<< entry >> \o prev, LOG_LIMIT)

\* if (isMonitoring && currentPrice > 0 && currentPrice >= threshold)
AlertCondition(mon, price, thr) == mon /\ price > 0 /\ price >= thr

\* if (now - lastAlertTimeRef.current > 600000)
DebouncePassed(t, last) == t - last > DEBOUNCE_MS

\* checkThreshold, run by the effect on [currentPrice, threshold, isMonitoring,
\* tgConfig] with the values of the render that scheduled it, up to the await.
\* A call that returns false before its fetch() resumes in the same task.
CheckThreshold(mon, price, thr, cfg) ==
    IF AlertCondition(mon, price, thr) /\ DebouncePassed(now, lastAlertTimeRef)
    THEN LET call == [made |-> TRUE, at |-> now, config |-> cfg, price |-> price,
                      threshold |-> thr, monitoring |-> mon,
                      requested |-> IssuesRequest(cfg)]
         IN  /\ lastCall' = call
             /\ IF call.requested
                THEN /\ sends' = Append(sends, call)
                     /\ UNCHANGED << logs, lastDone >>
                ELSE /\ sends' = sends
                     /\ logs' = PushLog(logs, LogEntry(call, FALSE))
                     /\ lastDone' = [made |-> TRUE, call |-> call,
                                     outcome |-> "none", result |-> "false"]
    ELSE UNCHANGED << sends, logs, lastCall, lastDone >>

\* ---------------------------------------------------- monitoring effect
ClearIntervalNoop(timers, id) == timers

\* clearInterval(id); clearInterval(undefined) clears nothing (no timer has id 0)
ClearInterval(timers, id) == { t \in timers : t.id # id }

FreshId(timers) ==
    CHOOSE i \in 1..(Cardinality(timers) + 1) : \A t \in timers : t.id # i

NextDueDouble(t) == t + 2 * POLL_INTERVAL

\* setInterval(fetchPrice, 60000): when the timer is next due
NextDue(t) == t + POLL_INTERVAL

\* the effect on [isMonitoring, fetchPrice]: the cleanup of the previous run,
\* then the body with the new isMonitoring
MonitoringEffect(mon) ==
    LET cleared == ClearInterval(intervals, effectInterval)
        id == FreshId(cleared)
    IN  IF mon
        THEN /\ fetchesInFlight' = fetchesInFlight + 1      \* fetchPrice()
             /\ loadingPrice' = TRUE
             /\ lastFetchStart' = now
             /\ intervals' = cleared \cup { [id |-> id, due |-> NextDue(now)] }
             /\ effectInterval' = id
        ELSE /\ intervals' = cleared
             /\ effectInterval' = 0
             /\ UNCHANGED << fetchesInFlight, loadingPrice, lastFetchStart >>

\* ------------------------------------------------------------- history
\* toLocaleTimeString([], {hour: '2-digit', minute: '2-digit'}) at UTC
TimeOfDay(ts) ==
    LET m == (ts \div 60000) % 1440
    IN  << m \div 60, m % 60 >>

NewPoint(ts, price) == [time |-> TimeOfDay(ts), price |-> price]

KeepOldest(history, point) == SliceTo(Append(history, point), HISTORY_LIMIT)

\* setPriceHistory(history => [...history, newPoint].slice(-30))
PushPoint(history, point) == SliceFrom(Append(history, point), -HISTORY_LIMIT)


\* ------------------------------------------------------------- insight
NoInsight == [sentiment |-> "null", analysis |-> "null"]

\* the object getMarketInsight returns from its catch block
FallbackInsight ==
    [sentiment |-> "Neutral", analysis |-> "Could not fetch AI analysis at this time."]

\* JSON.parse(response.text) of a reply with the given sentiment
ParsedInsight(sentiment) == [sentiment |-> sentiment, analysis |-> "ai"]

\* ------------------------------------------------------------ scenarios
NoneUsed == [events |-> 0, rejects |-> 0, late |-> 0, reloads |-> 0]

\* settings a previous session may have stored
StoredBefore == [botToken |-> << "a" >>, chatId |-> << "a" >>, enabled |-> TRUE]

AppLimits ==
    [horizon |-> MaxElapsed, jitter |-> MaxJitter, events |-> MaxEvents,
     rejects |-> MaxRejects, late |-> MaxLate,
     strings |-> { << >>, << "a" >> },
     prices |-> { INITIAL_THRESHOLD, INITIAL_THRESHOLD + 1 },
     thresholds |-> { INITIAL_THRESHOLD, INITIAL_THRESHOLD + 1 }]

PollingLimits ==
    [horizon |-> MaxElapsedPolling, jitter |-> MaxJitterPolling,
     events |-> MaxEventsPolling, rejects |-> MaxRejects,
     late |-> MaxLatePolling,
     strings |-> { << >> },
     prices |-> { INITIAL_THRESHOLD, INITIAL_THRESHOLD + 1 },
     thresholds |-> { INITIAL_THRESHOLD }]

HistoryLimits ==
    [horizon |-> MaxElapsedHistory, jitter |-> 0, events |-> MaxEventsHistory,
     rejects |-> MaxRejects, late |-> MaxLateHistory,
     strings |-> { << >> },
     prices |-> { INITIAL_THRESHOLD + 1 },
     thresholds |-> { INITIAL_THRESHOLD }]

PersistLimits ==
    [horizon |-> 0, jitter |-> 0, events |-> MaxEventsPersist,
     rejects |-> 0, late |-> 0,
     strings |-> Chars(MaxStrLen),
     prices |-> { INITIAL_THRESHOLD },
     thresholds |-> { INITIAL_THRESHOLD }]

Spend(what) == used' = [used EXCEPT ![what] = @ + 1]

Left(what) == used[what] < limits[what]

\* ----------------------------------------------------------------- Init
\* the app after its first render and mount effects, with `stored` in localStorage
Mounted(stored) ==
    /\ now = StartTime
    /\ appStatus = "running"
    /\ currentPrice = 0
    /\ threshold = INITIAL_THRESHOLD
    /\ priceHistory = << >>
    /\ isMonitoring = FALSE
    /\ insight = NoInsight
    /\ loadingInsight = FALSE
    /\ loadingPrice = FALSE
    /\ logs = << >>
    /\ tgConfig = LoadConfig(stored).config
    /\ lastAlertTimeRef = 0
    /\ localStorage = SaveConfig(tgConfig)
    /\ intervals = {}
    /\ effectInterval = 0
    /\ fetchesInFlight = 0
    /\ sends = << >>
    /\ insightCall = "idle"
    /\ lastCall = NoCall
    /\ lastDone = NoDone
    /\ alertStarts = << >>
    /\ lastFetchStart = 0
    /\ resolved = 0
    /\ used = NoneUsed

Init ==
    /\ \E stored \in {NoStoredItem, SaveConfig(StoredBefore)} : Mounted(stored)
    /\ limits = AppLimits

InitPolling == Mounted(NoStoredItem) /\ limits = PollingLimits

InitHistory == Mounted(NoStoredItem) /\ limits = HistoryLimits

InitPersist == Mounted(NoStoredItem) /\ limits = PersistLimits

\* -------------------------------------------------------------- actions
Running == appStatus = "running"

Due == { t.due : t \in intervals }

\* a response is outstanding
Pending == fetchesInFlight > 0 \/ sends # << >> \/ insightCall = "awaiting"

\* time passes, up to the next due timer; `late` counts the clock steps taken
\* with a response outstanding
Advance ==
    /\ \E n \in {now + 1, now + POLL_INTERVAL} \cup Due :
          /\ n > now
          /\ n <= StartTime + limits.horizon
          /\ \A d \in Due : n <= d
          /\ (n - StartTime) % POLL_INTERVAL <= limits.jitter
          /\ now' = n
    /\ IF Pending THEN Left("late") /\ Spend("late") ELSE used' = used
    /\ UNCHANGED << appStatus, currentPrice, threshold, priceHistory, isMonitoring,
                    insight, loadingInsight, loadingPrice, logs, tgConfig,
                    lastAlertTimeRef, localStorage, intervals, effectInterval,
                    fetchesInFlight, sends, insightCall, lastCall, lastDone,
                    alertStarts, lastFetchStart, resolved, limits >>

\* onClick={() => setIsMonitoring(!isMonitoring)}
ToggleMonitoring ==
    /\ Running
    /\ Left("events")
    /\ isMonitoring' = ~isMonitoring
    /\ MonitoringEffect(isMonitoring')
    /\ CheckThreshold(isMonitoring', currentPrice, threshold, tgConfig)
    /\ Spend("events")
    /\ UNCHANGED << now, appStatus, currentPrice, threshold, priceHistory,
                    insight, loadingInsight, tgConfig, lastAlertTimeRef,
                    localStorage, insightCall, alertStarts, resolved, limits >>

\* a setInterval timer comes due: fetchPrice()
TimerFire ==
    /\ Running
    /\ \E t \in intervals :
          /\ t.due = now
          /\ intervals' = (intervals \ {t}) \cup { [t EXCEPT !.due = NextDue(t.due)] }
    /\ fetchesInFlight' = fetchesInFlight + 1
    /\ loadingPrice' = TRUE
    /\ lastFetchStart' = now
    /\ UNCHANGED << now, appStatus, currentPrice, threshold, priceHistory, isMonitoring,
                    insight, loadingInsight, logs, tgConfig, lastAlertTimeRef,
                    localStorage, effectInterval, sends, insightCall, lastCall,
                    lastDone, alertStarts, resolved, used, limits >>

\* fetchLiveGoldPrice() resolves with pricePerGram = p: the rest of fetchPrice,
\* and the alert effect when currentPrice changed
FetchResolve(p) ==
    /\ Running
    /\ fetchesInFlight > 0
    /\ fetchesInFlight' = fetchesInFlight - 1
    /\ currentPrice' = p
    /\ priceHistory' = PushPoint(priceHistory, NewPoint(now, p))
    /\ loadingPrice' = FALSE
    /\ IF p # currentPrice
       THEN CheckThreshold(isMonitoring, p, threshold, tgConfig)
       ELSE UNCHANGED << sends, logs, lastCall, lastDone >>
    /\ resolved' = resolved + 1
    /\ UNCHANGED << now, appStatus, threshold, isMonitoring, insight, loadingInsight,
                    tgConfig, lastAlertTimeRef, localStorage, intervals,
                    effectInterval, insightCall, alertStarts, lastFetchStart,
                    used, limits >>

\* fetchLiveGoldPrice() rejects: catch, finally
FetchReject ==
    /\ Running
    /\ fetchesInFlight > 0
    /\ Left("rejects")
    /\ fetchesInFlight' = fetchesInFlight - 1
    /\ loadingPrice' = FALSE
    /\ Spend("rejects")
    /\ UNCHANGED << now, appStatus, currentPrice, threshold, priceHistory, isMonitoring,
                    insight, loadingInsight, logs, tgConfig, lastAlertTimeRef,
                    localStorage, intervals, effectInterval, sends, insightCall,
                    lastCall, lastDone, alertStarts, lastFetchStart, resolved, limits >>

RemoveAt(seq, i) == SubSeq(seq, 1, i - 1) \o SubSeq(seq, i + 1, Len(seq))

\* the fetch() of a pending sendTelegramAlert settles: the rest of checkThreshold
SendResponse(i, outcome) ==
    /\ Running
    /\ i \in 1..Len(sends)
    /\ LET call == sends[i]
           result == Settle(outcome)
       IN  /\ sends' = RemoveAt(sends, i)
           /\ lastDone' = [made |-> TRUE, call |-> call, outcome |-> outcome,
                           result |-> result]
           /\ IF result = "rejected"
              THEN UNCHANGED << logs, lastAlertTimeRef, alertStarts >>
              ELSE /\ logs' = PushLog(logs, LogEntry(call, result = "true"))
                   /\ lastAlertTimeRef' = IF result = "true" THEN call.at
                                          ELSE lastAlertTimeRef
                   /\ alertStarts' = IF result = "true" THEN Append(alertStarts, call.at)
                                     ELSE alertStarts
    /\ UNCHANGED << now, appStatus, currentPrice, threshold, priceHistory, isMonitoring,
                    insight, loadingInsight, loadingPrice, tgConfig, localStorage,
                    intervals, effectInterval, fetchesInFlight, insightCall, lastCall,
                    lastFetchStart, resolved, used, limits >>

\* onChange={(e) => setThreshold(Number(e.target.value))}
SetThreshold(v) ==
    /\ Running
    /\ Left("events")
    /\ v # threshold
    /\ threshold' = v
    /\ CheckThreshold(isMonitoring, currentPrice, v, tgConfig)
    /\ Spend("events")
    /\ UNCHANGED << now, appStatus, currentPrice, priceHistory, isMonitoring, insight,
                    loadingInsight, loadingPrice, tgConfig, lastAlertTimeRef,
                    localStorage, intervals, effectInterval, fetchesInFlight,
                    insightCall, alertStarts, lastFetchStart, resolved, limits >>

\* setTgConfig(a new object): the persistence effect and the alert effect
SetTgConfig(cfg) ==
    /\ Running
    /\ Left("events")
    /\ tgConfig' = cfg
    /\ localStorage' = SaveConfig(cfg)
    /\ CheckThreshold(isMonitoring, currentPrice, threshold, cfg)
    /\ Spend("events")
    /\ UNCHANGED << now, appStatus, currentPrice, threshold, priceHistory, isMonitoring,
                    insight, loadingInsight, loadingPrice, lastAlertTimeRef,
                    intervals, effectInterval, fetchesInFlight, insightCall,
                    alertStarts, lastFetchStart, resolved, limits >>

SetBotToken(s) == SetTgConfig([tgConfig EXCEPT !.botToken = s])

SetChatId(s) == SetTgConfig([tgConfig EXCEPT !.chatId = s])

ToggleEnabled == SetTgConfig([tgConfig EXCEPT !.enabled = ~tgConfig.enabled])


\* handleFetchInsight up to its await; `client` is how new GoogleGenAI(...) ends.
\* The constructor call stands before getMarketInsight's try block, so when it
\* throws the returned promise rejects and the handler stops at its await.
HandleFetchInsight(client) ==
    /\ Running
    /\ Left("events")
    /\ ~loadingInsight
    /\ IF currentPrice = 0
       THEN UNCHANGED << loadingInsight, insightCall, used >>
       ELSE /\ loadingInsight' = TRUE
            /\ insightCall' = IF client = "throws" THEN "rejected" ELSE "awaiting"
            /\ Spend("events")
    /\ UNCHANGED << now, appStatus, currentPrice, threshold, priceHistory, isMonitoring,
                    insight, loadingPrice, logs, tgConfig, lastAlertTimeRef,
                    localStorage, intervals, effectInterval, fetchesInFlight, sends,
                    lastCall, lastDone, alertStarts, lastFetchStart, resolved, limits >>

\* generateContent settles: a parsed reply, or the catch block's fallback
InsightResponse(reply) ==
    /\ Running
    /\ insightCall = "awaiting"
    /\ insight' = IF reply = "error" THEN FallbackInsight ELSE ParsedInsight(reply)
    /\ loadingInsight' = FALSE
    /\ insightCall' = "resolved"
    /\ UNCHANGED << now, appStatus, currentPrice, threshold, priceHistory, isMonitoring,
                    loadingPrice, logs, tgConfig, lastAlertTimeRef, localStorage,
                    intervals, effectInterval, fetchesInFlight, sends, lastCall,
                    lastDone, alertStarts, lastFetchStart, resolved, used, limits >>

\* the page is loaded again: timers and pending requests are gone, the state
\* is initialised anew and the mount effects run
Reload ==
    /\ Left("events")
    /\ LET loaded == LoadConfig(localStorage)
       IN  /\ appStatus' = IF loaded.ok THEN "running" ELSE "crashed"
           /\ tgConfig' = loaded.config
           /\ localStorage' = IF loaded.ok THEN SaveConfig(loaded.config)
                              ELSE localStorage
    /\ currentPrice' = 0
    /\ threshold' = INITIAL_THRESHOLD
    /\ priceHistory' = << >>
    /\ isMonitoring' = FALSE
    /\ insight' = NoInsight
    /\ loadingInsight' = FALSE
    /\ loadingPrice' = FALSE
    /\ logs' = << >>
    /\ lastAlertTimeRef' = 0
    /\ intervals' = {}
    /\ effectInterval' = 0
    /\ fetchesInFlight' = 0
    /\ sends' = << >>
    /\ insightCall' = "idle"
    /\ lastCall' = NoCall
    /\ lastDone' = NoDone
    /\ alertStarts' = << >>
    /\ lastFetchStart' = 0
    /\ resolved' = 0
    /\ used' = [used EXCEPT !.events = @ + 1, !.reloads = @ + 1]
    /\ UNCHANGED << now, limits >>

\* ------------------------------------------------------- specifications
Next ==
    \/ Advance
    \/ ToggleMonitoring
    \/ TimerFire
    \/ \E p \in limits.prices : FetchResolve(p)
    \/ FetchReject
    \/ \E i \in 1..Len(sends), o \in Outcomes : SendResponse(i, o)
    \/ \E v \in limits.thresholds : SetThreshold(v)
    \/ \E s \in limits.strings : SetBotToken(s)
    \/ \E s \in limits.strings : SetChatId(s)
    \/ ToggleEnabled

Spec == Init /\ [][Next]_vars

NextInsight ==
    \/ Advance
    \/ ToggleMonitoring
    \/ TimerFire
    \/ \E p \in limits.prices : FetchResolve(p)
    \/ \E c \in {"created", "throws"} : HandleFetchInsight(c)
    \/ \E r \in {"Bullish", "Bearish", "Neutral", "error"} : InsightResponse(r)

SpecInsight == Init /\ [][NextInsight]_vars

NextPolling ==
    \/ Advance
    \/ ToggleMonitoring
    \/ TimerFire
    \/ \E p \in limits.prices : FetchResolve(p)
    \/ FetchReject

SpecPolling == InitPolling /\ [][NextPolling]_vars

NextHistory ==
    \/ Advance
    \/ ToggleMonitoring
    \/ TimerFire
    \/ \E p \in limits.prices : FetchResolve(p)

SpecHistory == InitHistory /\ [][NextHistory]_vars

NextPersist ==
    \/ \E s \in limits.strings : SetBotToken(s)
    \/ \E s \in limits.strings : SetChatId(s)
    \/ ToggleEnabled
    \/ Reload

SpecPersist == InitPersist /\ [][NextPersist]_vars

\* --------------------------------------------------------------- claims
Abs(x) == IF x < 0 THEN -x ELSE x

\* C1: no two sendTelegramAlert calls that returned true were started within
\* 600000 ms of each other.
AlertsDebounced ==
    \A i, j \in 1..Len(alertStarts) :
        i < j => Abs(alertStarts[j] - alertStarts[i]) > DEBOUNCE_MS

\* C2: priceHistory never holds more than 30 points, and a resolved fetchPrice
\* leaves the last 30 of (previous history, new point): the new point last, the
\* order kept, only the oldest dropped.  (Under SpecHistory the only step that
\* lowers fetchesInFlight is a resolved fetchPrice.)
HistoryPushKeepsNewest ==
    fetchesInFlight' < fetchesInFlight =>
        LET all == Append(priceHistory, [time |-> TimeOfDay(now), price |-> currentPrice'])
            n == Len(priceHistory')
            dropped == Len(all) - n
        IN  /\ n = Min(Len(all), HISTORY_LIMIT)
            /\ priceHistory'[n] = all[Len(all)]
            /\ \A i \in 1..n : priceHistory'[i] = all[i + dropped]

HistoryBounded ==
    /\ [](Len(priceHistory) <= HISTORY_LIMIT)
    /\ [][HistoryPushKeepsNewest]_vars

HistoryDroppedOldest ==
    /\ resolved > HISTORY_LIMIT
    /\ Len(priceHistory) = HISTORY_LIMIT

\* C3: an alert is sent only when the price exceeds the threshold: at every
\* call of sendTelegramAlert that reaches Telegram, monitoring is on and the
\* price is positive and strictly greater than the threshold.
AlertOnlyAboveThreshold ==
    (lastCall.made /\ lastCall.requested) =>
        /\ lastCall.monitoring
        /\ lastCall.price > 0
        /\ lastCall.price > lastCall.threshold

\* C4: a poll that returns a price at or above the threshold while monitoring is
\* on and Telegram is configured has a send attempted for that price (started
\* by that poll or still pending), unless lastAlertTimeRef is within the
\* previous 600000 ms.
PollResolved == fetchesInFlight' < fetchesInFlight /\ resolved' > resolved

HighPollAttempts ==
    ( /\ PollResolved
      /\ isMonitoring
      /\ tgConfig.enabled /\ tgConfig.botToken # << >> /\ tgConfig.chatId # << >>
      /\ currentPrice' >= threshold
      /\ ~(now - lastAlertTimeRef <= DEBOUNCE_MS) )
    => \E k \in 1..Len(sends') : sends'[k].price = currentPrice'

HighPollAlerts == [][HighPollAttempts]_vars

\* C5: at most one polling timer is active, exactly one while isMonitoring and
\* none otherwise.
SinglePollingTimer ==
    /\ Cardinality(intervals) <= 1
    /\ isMonitoring <=> Cardinality(intervals) = 1

\* monitoring is on again after on, off, on: two polls pending before any timer fired
MonitoringRestarted ==
    /\ isMonitoring
    /\ now = StartTime
    /\ fetchesInFlight = 2
    /\ Cardinality(intervals) = 1

\* C6: turning monitoring on starts a fetchPrice call at once; while it stays on
\* the next call starts exactly 60000 ms after the previous one (and the clock
\* never gets further than that from the last call); while it is off no call
\* starts.
FetchStarted == fetchesInFlight' = fetchesInFlight + 1

PollingSteps ==
    /\ (~isMonitoring /\ isMonitoring') => (FetchStarted /\ lastFetchStart' = now)
    /\ (isMonitoring /\ isMonitoring' /\ FetchStarted) =>
           (now = lastFetchStart + POLL_INTERVAL /\ lastFetchStart' = now)
    /\ ~isMonitoring' => ~FetchStarted

PollingSchedule ==
    /\ [](isMonitoring => now - lastFetchStart <= POLL_INTERVAL)
    /\ [][PollingSteps]_vars

\* one toggle only, a point already in the history and a further poll just
\* started: that poll was started by the timer
TimerPolled ==
    /\ isMonitoring
    /\ used.events = 1
    /\ priceHistory # << >>
    /\ fetchesInFlight = 1
    /\ now = lastFetchStart

\* C7: with an empty token, an empty chat id or notifications disabled
\* sendTelegramAlert issues no request and returns false; it always settles to a
\* boolean, and to true only when the response was ok.
Unconfigured(config) == config.botToken = << >> \/ config.chatId = << >> \/ ~config.enabled

SendContract ==
    /\ (lastCall.made /\ Unconfigured(lastCall.config)) => ~lastCall.requested
    /\ lastDone.made =>
          /\ lastDone.result \in {"true", "false"}
          /\ Unconfigured(lastDone.call.config) =>
                 (lastDone.result = "false" /\ lastDone.outcome = "none")
          /\ lastDone.result = "true" => lastDone.outcome = "ok"
          /\ lastDone.outcome \in {"notok", "throw"} => lastDone.result = "false"

\* a call made with a token and a chat id but notifications disabled settled
SentWhileDisabled ==
    /\ lastDone.made
    /\ lastDone.call.config.botToken # << >>
    /\ lastDone.call.config.chatId # << >>
    /\ ~lastDone.call.config.enabled
    /\ lastDone.result = "false"

\* C8: the stored item is always the JSON of tgConfig and parses back to it; a
\* restart restores the configuration it found; with nothing stored the
\* configuration starts as the default.
StoredIsCurrent ==
    Running =>
        /\ localStorage = [present |-> TRUE, text |-> JSONstringify(tgConfig)]
        /\ LoadConfig(localStorage) = [ok |-> TRUE, config |-> tgConfig]

RestartRestores ==
    used'.reloads > used.reloads => (appStatus' = "running" /\ tgConfig' = tgConfig)

SettingsPersisted ==
    /\ tgConfig = [botToken |-> << >>, chatId |-> << >>, enabled |-> FALSE]
    /\ []StoredIsCurrent
    /\ [][RestartRestores]_vars

\* a configuration whose strings need escaping came back from a restart
RestoredEscaped ==
    /\ used.reloads > 0
    /\ tgConfig.botToken = << "\"" >>
    /\ tgConfig.chatId = << "\\" >>
    /\ tgConfig.enabled

\* C9: getMarketInsight never rejects, and a handleFetchInsight call that went
\* past its guard ends with loadingInsight false and an insight set.
InsightAlwaysSettles ==
    /\ insightCall # "rejected"
    /\ insightCall = "resolved" => (~loadingInsight /\ insight # NoInsight)

=============================================================================
